---------------------------- MODULE Spec2Model ----------------------------
(***************************************************************************)
(* Futures Trading Dashboard: the zone classification query of             *)
(* slicers.py (group_symbols_by_time_zone) over the table f_ohlcv, the     *)
(* request/response run of app.py's main(), the statistics of analysis.py  *)
(* and filter_zones of data_utils.py.                                      *)
(*                                                                         *)
(* Units.  A price is an integer number of hundredths of a price unit      *)
(* (100.09 is 10009), so the SQL literals 0.1, 0 and 999999 are 10, 0 and  *)
(* 99999900.  A clock time is a minute of the day 0..1439, a date is a day *)
(* number, and a timestamp is day * 1440 + minute.  A text value is a      *)
(* sequence of one-character strings.  A nullable SQL value is <<>> (NULL) *)
(* or <<v>>.                                                               *)
(***************************************************************************)
EXTENDS Integers, Sequences, FiniteSets, TLC

VARIABLES
    table,      \* the rows of f_ohlcv
    args,       \* the arguments of the call of group_symbols_by_time_zone under check
    df,         \* what that call returned (<<>> before it returns: NULL, then <<rows>>)
    fpc,        \* "ready" before the call, "called" after it
    w,          \* the sidebar widgets' values, kept by the browser session across reruns
    session,    \* st.session_state
    cache,      \* the st.cache_data stores of the cached functions
    pc,         \* where the current run of main() stands ("idle" between runs)
    loc,        \* the run's locals: what triggered it, its dates, the state it started from
    ui          \* what the run has put on the page, and the queries it has sent

fvars == <<table, args, df, fpc>>
mvars == <<w, session, cache, pc, loc, ui>>
vars == <<table, args, df, fpc, w, session, cache, pc, loc, ui>>

-----------------------------------------------------------------------------
(* Bounds of the model *)

MaxBars == 3        \* rows of f_ohlcv in a checked table
MaxDay == 2         \* days 1..MaxDay carry bars

-----------------------------------------------------------------------------
(* Program constants *)

MinutesPerDay == 1440
ZoneMinutes == 60           \* timedelta(minutes=60)
StackTolerance == 10        \* 0.1
CoalesceAbove == 0          \* COALESCE(zoneN_max, 0)
CoalesceBelow == 99999900   \* COALESCE(zoneN_max, 999999)

NULL == <<>>
Some(v) == <<v>>

-----------------------------------------------------------------------------
(* Text: str.strip, str.upper, str.split(',') *)

UpperChar(c) ==
    CASE c = "e" -> "E"
      [] c = "s" -> "S"
      [] c = "q" -> "Q"
      [] OTHER -> c

Upper(s) == [i \in 1..Len(s) |-> UpperChar(s[i])]

RECURSIVE LStrip(_)
LStrip(s) == IF s # <<>> /\ Head(s) = " " THEN LStrip(Tail(s)) ELSE s

RECURSIVE RStrip(_)
RStrip(s) ==
    IF s # <<>> /\ s[Len(s)] = " " THEN RStrip(SubSeq(s, 1, Len(s) - 1)) ELSE s

Strip(s) == RStrip(LStrip(s))

\* s.split(','): the pieces between the commas, empty pieces included
RECURSIVE SplitFrom(_, _)
SplitFrom(s, cur) ==
    IF s = <<>> THEN <<cur>>
    ELSE IF Head(s) = "," THEN <<cur>> \o SplitFrom(Tail(s), <<>>)
    ELSE SplitFrom(Tail(s), Append(cur, Head(s)))

Split(s) == SplitFrom(s, <<>>)

\* [s.strip().upper() for s in value.split(',') if s.strip()] if value.strip() != "" else []
FilterList(value) ==
    IF Strip(value) = <<>> THEN {}
    ELSE LET parts == Split(value)
         IN  {Upper(Strip(parts[i])) : i \in {j \in 1..Len(parts) : Strip(parts[j]) # <<>>}}

-----------------------------------------------------------------------------
(* f_ohlcv *)

Bar(d, t, o, h, l, c, sym, cat) ==
    [day |-> d, tm |-> t, open |-> o, high |-> h, low |-> l, close |-> c,
     symbol |-> sym, category |-> cat]

TsEvent(b) == b.day * MinutesPerDay + b.tm
Hour(b) == b.tm \div 60
Minute(b) == b.tm % 60

SetMax(S) == CHOOSE x \in S : \A y \in S : y <= x
SetMin(S) == CHOOSE x \in S : \A y \in S : x <= y

\* MAX(expr) over a group: NULL when no row contributes
SqlMax(S) == IF S = {} THEN NULL ELSE Some(SetMax(S))

RECURSIVE SortedSeq(_)
SortedSeq(S) ==
    IF S = {} THEN <<>> ELSE LET m == SetMin(S) IN <<m>> \o SortedSeq(S \ {m})

-----------------------------------------------------------------------------
(* group_symbols_by_time_zone *)

\* (datetime.combine(datetime.today(), zone_start) + timedelta(minutes=60)).time()
ZoneEnd(zone_start) == (zone_start + ZoneMinutes) % MinutesPerDay

\* CAST(ts_event AS time) BETWEEN :zone_start AND :zone_end
InZone(b, zone_start) == zone_start <= b.tm /\ b.tm <= ZoneEnd(zone_start)

\* ts_event BETWEEN :start_date AND :end_date, the dates being midnight timestamps
InDateRange(b, start_date, end_date) ==
    start_date * MinutesPerDay <= TsEvent(b) /\ TsEvent(b) <= end_date * MinutesPerDay

\* (:symbol_filter = '' OR UPPER(symbol) = ANY(:symbol_list))
SymbolMatches(b, symbol_filter_value) ==
    Strip(symbol_filter_value) = <<>> \/ Upper(b.symbol) \in FilterList(symbol_filter_value)

\* (:category_filter = '' OR UPPER(category) = ANY(:category_list))
CategoryMatches(b, category_filter_value) ==
    Strip(category_filter_value) = <<>> \/ Upper(b.category) \in FilterList(category_filter_value)

\* the WHERE clause of zone_data
WhereRows(T, a) ==
    {b \in T : /\ InDateRange(b, a.start_date, a.end_date)
               /\ SymbolMatches(b, a.symbol_filter_value)
               /\ CategoryMatches(b, a.category_filter_value)}

\* MAX(CASE WHEN CAST(ts_event AS time) BETWEEN ... THEN high ELSE NULL END), per day
ZoneMax(rows, d, zone_start) ==
    SqlMax({b.high : b \in {x \in rows : x.day = d /\ InZone(x, zone_start)}})

\* zone_data: one row per DATE(ts_event) among the rows the WHERE clause keeps
ZoneData(rows, a) ==
    {[day |-> d,
      symbols |-> {b.symbol : b \in {x \in rows : x.day = d}},
      zone1_max |-> ZoneMax(rows, d, a.zone1_start),
      zone2_max |-> ZoneMax(rows, d, a.zone2_start),
      zone3_max |-> ZoneMax(rows, d, a.zone3_start)] : d \in {b.day : b \in rows}}

Coalesce(x, dflt) == IF x = NULL THEN Some(dflt) ELSE x

\* x > y and x < y in SQL: not true when an operand is NULL
Gt(x, y) == x # NULL /\ y # NULL /\ x[1] > y[1]
Lt(x, y) == x # NULL /\ y # NULL /\ x[1] < y[1]

Abs(n) == IF n < 0 THEN -n ELSE n

StackedLe(x, y) == x # NULL /\ y # NULL /\ Abs(x[1] - y[1]) <= StackTolerance
\* x IS NOT NULL AND y IS NOT NULL AND ABS(x - y) < 0.1
Stacked(x, y) == x # NULL /\ y # NULL /\ Abs(x[1] - y[1]) < StackTolerance

\* the WHEN conditions of zone_conditions, in the order of the CASE
Zone1Cond(a, r) ==
    \/ a.zone1_type = "Above Zone 2" /\ Gt(r.zone1_max, Coalesce(r.zone2_max, CoalesceAbove))
    \/ a.zone1_type = "Below Zone 2" /\ Lt(r.zone1_max, Coalesce(r.zone2_max, CoalesceBelow))
    \/ a.zone1_type = "Stacked with Zone 2" /\ Stacked(r.zone1_max, r.zone2_max)

Zone2Cond(a, r) ==
    \/ a.zone2_type = "Above Zone 1" /\ Gt(r.zone2_max, Coalesce(r.zone1_max, CoalesceAbove))
    \/ a.zone2_type = "Below Zone 1" /\ Lt(r.zone2_max, Coalesce(r.zone1_max, CoalesceBelow))
    \/ a.zone2_type = "Stacked with Zone 1" /\ Stacked(r.zone2_max, r.zone1_max)

Zone3Cond(a, r) ==
    \/ /\ a.zone3_type = "Above Zone 1 & Zone 2"
       /\ Gt(r.zone3_max, Coalesce(r.zone1_max, CoalesceAbove))
       /\ Gt(r.zone3_max, Coalesce(r.zone2_max, CoalesceAbove))
    \/ /\ a.zone3_type = "Below Zone 1 & Zone 2"
       /\ Lt(r.zone3_max, Coalesce(r.zone1_max, CoalesceBelow))
       /\ Lt(r.zone3_max, Coalesce(r.zone2_max, CoalesceBelow))
    \/ /\ a.zone3_type = "Stacked with Zone 1 & Zone 2"
       /\ r.zone3_max # NULL
       /\ Stacked(r.zone3_max, r.zone1_max)
       /\ Stacked(r.zone3_max, r.zone2_max)

Zone1Label(t) ==
    CASE t = "Above Zone 2" -> "Zone 1 above Zone 2"
      [] t = "Below Zone 2" -> "Zone 1 below Zone 2"
      [] t = "Stacked with Zone 2" -> "Zone 1 stacked with Zone 2"

Zone2Label(t) ==
    CASE t = "Above Zone 1" -> "Zone 2 above Zone 1"
      [] t = "Below Zone 1" -> "Zone 2 below Zone 1"
      [] t = "Stacked with Zone 1" -> "Zone 2 stacked with Zone 1"

Zone3Label(t) ==
    CASE t = "Above Zone 1 & Zone 2" -> "Zone 3 above Zone 1 & Zone 2"
      [] t = "Below Zone 1 & Zone 2" -> "Zone 3 below Zone 1 & Zone 2"
      [] t = "Stacked with Zone 1 & Zone 2" -> "Zone 3 stacked with Zone 1 & Zone 2"

\* the CASE of zone_conditions: the first WHEN that holds, ELSE NULL
ZoneRelationship(a, r) ==
    IF Zone1Cond(a, r) THEN Some(Zone1Label(a.zone1_type))
    ELSE IF Zone2Cond(a, r) THEN Some(Zone2Label(a.zone2_type))
    ELSE IF Zone3Cond(a, r) THEN Some(Zone3Label(a.zone3_type))
    ELSE NULL

\* zone_conditions WHERE zone_relationship IS NOT NULL ORDER BY day
GroupRows(rows, a) ==
    LET zd == ZoneData(rows, a)
        kept == {r \in zd : ZoneRelationship(a, r) # NULL}
        days == SortedSeq({r.day : r \in kept})
        RowOf(d) == CHOOSE r \in kept : r.day = d
    IN  [i \in 1..Len(days) |->
            [day |-> days[i],
             symbols |-> RowOf(days[i]).symbols,
             zone1_max |-> RowOf(days[i]).zone1_max,
             zone2_max |-> RowOf(days[i]).zone2_max,
             zone3_max |-> RowOf(days[i]).zone3_max,
             zone_relationship |-> ZoneRelationship(a, RowOf(days[i]))[1]]]

group_symbols_by_time_zone(T, a) == GroupRows(WhereRows(T, a), a)
-----------------------------------------------------------------------------
(* The widgets' value sets (slicers.py) *)

Zone1Types == {"Above Zone 2", "Below Zone 2", "Stacked with Zone 2"}
Zone2Types == {"Above Zone 1", "Below Zone 1", "Stacked with Zone 1"}
Zone3Types == {"Above Zone 1 & Zone 2", "Below Zone 1 & Zone 2", "Stacked with Zone 1 & Zone 2"}

\* clock times used below, hour * 60 + minute
T0000 == 0 * 60 + 0
T0015 == 0 * 60 + 15
T0300 == 3 * 60 + 0
T0930 == 9 * 60 + 30
T1800 == 18 * 60 + 0
T1900 == 19 * 60 + 0
T2300 == 23 * 60 + 0
T2330 == 23 * 60 + 30
T2345 == 23 * 60 + 45

\* the defaults main() passes to zone_filter: 18:00, 03:00, 09:30
DefaultZone1Start == T1800
DefaultZone2Start == T0300
DefaultZone3Start == T0930

-----------------------------------------------------------------------------
(* Symbols, categories and bars used as data *)

\* a bar whose open, high, low and close are one price
FlatBar(d, t, p, sym, cat) == Bar(d, t, p, p, p, p, sym, cat)

SymES == <<"E", "S", "H">>
SymEs == <<"e", "s", "H">>
Sym6E == <<"6", "E", "H">>
CatES == <<"E", "S">>
Cat6E == <<"6", "E">>
Cat6e == <<"6", "e">>

NoFilter == <<>>

-----------------------------------------------------------------------------
(* main(): session state, widgets, cached functions *)

SessionKeys ==
    {"df_grouped", "retracement_df", "zone1_retracement_df", "high_prob", "high_dist_df",
     "low_prob", "low_dist_df", "bullish_bearish_summary", "bullish_bearish_daily"}

\* Python values held in st.session_state
Absent == [kind |-> "absent"]       \* the key is not in st.session_state
None == [kind |-> "None"]
DataFrame(rows) == [kind |-> "DataFrame", rows |-> rows]
\* the value an analysis function returned for a list of days
StatResult(fn, days) == [kind |-> "result", of |-> fn, days |-> days]

\* a cache store is a set of <<key, value>> entries
CacheHit(store, key) == \E e \in store : e[1] = key
CacheGet(store, key) == (CHOOSE e \in store : e[1] = key)[2]

\* SELECT MIN(ts_event), MAX(ts_event) FROM f_ohlcv, each .date() or None
DateRange(T) ==
    IF T = {} THEN <<NULL, NULL>>
    ELSE <<Some(SetMin({b.day : b \in T})), Some(SetMax({b.day : b \in T}))>>

FreshUi ==
    [errors |-> <<>>, progress |-> NULL, status |-> NULL, queries |-> <<>>,
     failed |-> <<>>, raised |-> FALSE, date_inputs |-> FALSE, button |-> FALSE,
     rendered |-> {}]

FreshLoc(click, sess) ==
    [click |-> click, start_date |-> NULL, end_date |-> NULL, session0 |-> sess]

DefaultWidgets ==
    [start_date |-> NULL, end_date |-> NULL,
     category_filter_value |-> <<>>, symbol_filter_value |-> <<>>, grouping |-> "day",
     zone1_start |-> DefaultZone1Start, zone2_start |-> DefaultZone2Start,
     zone3_start |-> DefaultZone3Start,
     zone1_type |-> "Above Zone 2", zone2_type |-> "Above Zone 1",
     zone3_type |-> "Above Zone 1 & Zone 2"]

\* get_date_range() under st.cache_data: no query on a hit; a failed query raises
\* and stores nothing.  ok says whether the query, if one is sent, succeeds.
DateRangeMiss == cache.date_range = {}
DateRangeValue == IF DateRangeMiss THEN DateRange(table) ELSE CacheGet(cache.date_range, <<>>)
DateRangeCache(ok) ==
    IF DateRangeMiss /\ ok THEN [cache EXCEPT !.date_range = {<<<<>>, DateRange(table)>>}]
    ELSE cache
DateRangeUi(u, ok) ==
    IF ~DateRangeMiss THEN u
    ELSE IF ok THEN [u EXCEPT !.queries = Append(@, "get_date_range")]
    ELSE [u EXCEPT !.queries = Append(@, "get_date_range"),
                   !.failed = Append(@, "get_date_range"),
                   !.raised = TRUE]

\* start_date_filter / end_date_filter: None with a sidebar error when the table
\* has no dates, else the date input's value, which is its default (value=) when
\* the input is drawn for the first time
DateFilter(range, picked, dflt) ==
    IF range[1] = NULL \/ range[2] = NULL THEN NULL
    ELSE IF picked = NULL THEN dflt ELSE picked

DateFilterUi(u, range) ==
    IF range[1] = NULL \/ range[2] = NULL
    THEN [u EXCEPT !.errors = Append(@, "No date range found in the database.")]
    ELSE [u EXCEPT !.date_inputs = TRUE]

\* lines 68-94: the session keys are initialised, then start_date_filter()
StartDateFilter ==
    /\ pc = "start_date"
    /\ \E ok \in (IF DateRangeMiss THEN BOOLEAN ELSE {TRUE}) :
          LET range == DateRangeValue
          IN  /\ session' = [k \in SessionKeys |->
                                IF session[k] = Absent THEN None ELSE session[k]]
              /\ cache' = DateRangeCache(ok)
              /\ IF ok
                 THEN /\ ui' = DateFilterUi(DateRangeUi(ui, ok), range)
                      /\ loc' = [loc EXCEPT
                                   !.start_date = DateFilter(range, w.start_date, range[1])]
                      /\ w' = [w EXCEPT
                                 !.start_date = DateFilter(range, w.start_date, range[1])]
                      /\ pc' = "end_date"
                 ELSE /\ ui' = DateRangeUi(ui, ok)
                      /\ loc' = loc
                      /\ w' = w
                      /\ pc' = "idle"
    /\ UNCHANGED fvars

DateRangeUnordered(start_date, end_date) == FALSE
\* if start_date > end_date
DateRangeReversed(start_date, end_date) == start_date[1] > end_date[1]

\* lines 100-106: the message of the failed validation, or NULL
DateRangeError(start_date, end_date) ==
    IF start_date = NULL \/ end_date = NULL THEN Some("Please select a valid date range.")
    ELSE IF DateRangeReversed(start_date, end_date)
    THEN Some("Align the stars: Start date must be before or equal to the end date.")
    ELSE NULL

\* lines 95-132: end_date_filter(), the other filters, the validation, the zone
\* widgets, the progress bar and the Refresh button
EndDateFilter ==
    /\ pc = "end_date"
    /\ \E ok \in (IF DateRangeMiss THEN BOOLEAN ELSE {TRUE}) :
          LET range == DateRangeValue
              end_date == DateFilter(range, w.end_date, range[2])
              u1 == DateFilterUi(DateRangeUi(ui, ok), range)
              err == DateRangeError(loc.start_date, end_date)
              load == loc.click \/ session["df_grouped"] = None
          IN  /\ cache' = DateRangeCache(ok)
              /\ w' = IF ok THEN [w EXCEPT !.end_date = end_date] ELSE w
              /\ IF ~ok
                 THEN /\ ui' = DateRangeUi(ui, ok)
                      /\ loc' = loc
                      /\ pc' = "idle"
                 ELSE IF err # NULL
                 THEN /\ ui' = [u1 EXCEPT !.errors = Append(@, err[1])]
                      /\ loc' = [loc EXCEPT !.end_date = end_date]
                      /\ pc' = "idle"
                 ELSE /\ ui' = [u1 EXCEPT
                                  !.button = TRUE,
                                  !.progress = IF load THEN Some(10) ELSE Some(0),
                                  !.status = IF load THEN Some("Starting data load...")
                                             ELSE Some("Ready to load data...")]
                      /\ loc' = [loc EXCEPT !.end_date = end_date]
                      /\ pc' = IF load THEN "group" ELSE "render"
    /\ UNCHANGED <<session, fvars>>

\* the arguments main() passes to group_symbols_by_time_zone
GroupArgs ==
    [start_date |-> loc.start_date[1], end_date |-> loc.end_date[1], grouping |-> w.grouping,
     zone1_start |-> w.zone1_start, zone2_start |-> w.zone2_start,
     zone3_start |-> w.zone3_start,
     zone1_type |-> w.zone1_type, zone2_type |-> w.zone2_type, zone3_type |-> w.zone3_type,
     symbol_filter_value |-> w.symbol_filter_value,
     category_filter_value |-> w.category_filter_value]

GroupErrorUiKeepsProgress(u) ==
    [u EXCEPT !.failed = Append(@, "group_symbols_by_time_zone"),
              !.errors = Append(@, "Error in group_symbols_by_time_zone")]
\* lines 147-150: the except branch of the grouping query
GroupErrorUi(u) ==
    [u EXCEPT !.failed = Append(@, "group_symbols_by_time_zone"),
              !.errors = Append(@, "Error in group_symbols_by_time_zone"),
              !.progress = Some(0),
              !.status = Some("Error occurred.")]

\* lines 137-160 (and 198-199 when no day matches): the grouping query
GroupData ==
    /\ pc = "group"
    /\ LET a == GroupArgs
           hit == CacheHit(cache.group, a)
       IN  \E ok \in (IF hit THEN {TRUE} ELSE BOOLEAN) :
              LET u1 == IF hit THEN ui
                        ELSE [ui EXCEPT !.queries = Append(@, "group_symbols_by_time_zone")]
                  rows == IF hit THEN CacheGet(cache.group, a)
                          ELSE group_symbols_by_time_zone(table, a)
              IN  IF ok
                  THEN /\ session' = [session EXCEPT !["df_grouped"] = DataFrame(rows)]
                       /\ cache' = [cache EXCEPT !.group = @ \cup {<<a, rows>>}]
                       /\ ui' = IF rows = <<>>
                                THEN [u1 EXCEPT !.progress = Some(100),
                                                !.status = Some("Dashboard fully loaded!")]
                                ELSE [u1 EXCEPT !.progress = Some(30),
                                                !.status = Some("Data grouped successfully!")]
                       /\ pc' = IF rows = <<>> THEN "render" ELSE "retracement_df"
                  ELSE /\ session' = session
                       /\ cache' = cache
                       /\ ui' = GroupErrorUi(u1)
                       /\ pc' = "idle"
    /\ UNCHANGED <<w, loc, fvars>>

\* selected_days = df_grouped['day'].tolist()
SelectedDays ==
    LET rows == session["df_grouped"].rows IN [i \in 1..Len(rows) |-> rows[i].day]

\* the queries one call of an analysis function sends, in order
StatQueries(fn) ==
    IF fn = "get_bullish_bearish_stats"
    THEN <<"get_bullish_bearish_stats.summary", "get_bullish_bearish_stats.daily">>
    ELSE <<fn>>

\* the queries of a call sent before and including the first one that fails
\* (oks[i] says whether the i-th succeeds)
\* (a variant that sends a failed query once more)
RECURSIVE SentQueriesRetry(_, _)
SentQueriesRetry(qs, oks) ==
    IF qs = <<>> THEN <<>>
    ELSE IF oks[1] THEN <<Head(qs)>> \o SentQueriesRetry(Tail(qs), Tail(oks))
    ELSE <<Head(qs), Head(qs)>>

RECURSIVE SentQueries(_, _)
SentQueries(qs, oks) ==
    IF qs = <<>> THEN <<>>
    ELSE IF oks[1] THEN <<Head(qs)>> \o SentQueries(Tail(qs), Tail(oks))
    ELSE <<Head(qs)>>

AllOk(oks) == \A i \in 1..Len(oks) : oks[i]

\* one statement of the three try blocks, lines 161-196: a cached analysis function
\* is called on selected_days and its result assigned to session keys; an exception
\* is shown as an error and ends the run.  done is the progress and status set
\* after a block's last statement, next the statement that follows.
StatCall(here, fn, keys, errmsg, done, next) ==
    /\ pc = here
    /\ LET days == SelectedDays
           hit == CacheHit(cache.stats, <<fn, days>>)
           qs == StatQueries(fn)
       IN  \E oks \in (IF hit THEN {[i \in 1..Len(qs) |-> TRUE]}
                       ELSE [1..Len(qs) -> BOOLEAN]) :
              LET sent == IF hit THEN <<>> ELSE SentQueries(qs, oks)
                  u1 == [ui EXCEPT !.queries = @ \o sent]
                  val == IF hit THEN CacheGet(cache.stats, <<fn, days>>)
                         ELSE StatResult(fn, days)
              IN  IF AllOk(oks)
                  THEN /\ session' = [k \in SessionKeys |->
                                         IF k \in keys THEN val ELSE session[k]]
                       /\ cache' = [cache EXCEPT !.stats = @ \cup {<<<<fn, days>>, val>>}]
                       /\ ui' = IF done = NULL THEN u1
                                ELSE [u1 EXCEPT !.progress = Some(done[1]),
                                                !.status = Some(done[2])]
                       /\ pc' = next
                  ELSE /\ session' = session
                       /\ cache' = cache
                       /\ ui' = [u1 EXCEPT !.failed = Append(@, sent[Len(sent)]),
                                           !.errors = Append(@, errmsg)]
                       /\ pc' = "idle"
    /\ UNCHANGED <<w, loc, fvars>>

RetracementStats ==
    StatCall("retracement_df", "get_retracement_stats", {"retracement_df"},
             "Error in retracement stats", NULL, "zone1_retracement_df")

Zone1RetracementStats ==
    StatCall("zone1_retracement_df", "get_zone1_retracement_stats", {"zone1_retracement_df"},
             "Error in retracement stats", <<50, "Retracement stats calculated!">>, "high_prob")

HighInOpenProbability ==
    StatCall("high_prob", "get_high_in_open_probability", {"high_prob"},
             "Error in daily stats", NULL, "high_dist_df")

HighDistribution ==
    StatCall("high_dist_df", "get_high_distribution", {"high_dist_df"},
             "Error in daily stats", NULL, "low_prob")

LowInOpenProbability ==
    StatCall("low_prob", "get_low_in_open_probability", {"low_prob"},
             "Error in daily stats", NULL, "low_dist_df")

LowDistribution ==
    StatCall("low_dist_df", "get_low_distribution", {"low_dist_df"},
             "Error in daily stats", <<75, "Daily stats analyzed!">>, "bullish_bearish")

\* line 191 and, the run's load being complete, lines 198-199
BullishBearishStats ==
    StatCall("bullish_bearish", "get_bullish_bearish_stats",
             {"bullish_bearish_summary", "bullish_bearish_daily"},
             "Error in bullish/bearish stats", <<100, "Dashboard fully loaded!">>, "render")

DashboardSections ==
    {"Dashboard Summary", "Retracement Analysis", "Daily Stats",
     "Bullish/Bearish Day Analysis", "View DataFrames"}

\* lines 201-340: the page is drawn from the session state
Render ==
    /\ pc = "render"
    /\ ui' = [ui EXCEPT !.rendered = IF session["df_grouped"] # None THEN DashboardSections
                                     ELSE {"Click 'Refresh Data' to load the dashboard."}]
    /\ pc' = "idle"
    /\ UNCHANGED <<w, session, cache, loc, fvars>>

-----------------------------------------------------------------------------
(* What starts a run of main(): Streamlit reruns the script on every widget event *)

BeginRun(click) ==
    /\ pc = "idle"
    /\ pc' = "start_date"
    /\ loc' = FreshLoc(click, session)
    /\ ui' = FreshUi
    /\ UNCHANGED <<session, cache, fvars>>

\* the user clicks 'Refresh Data', a button the last run drew
ClickRefresh == ui.button /\ BeginRun(TRUE) /\ w' = w

\* the page is rerun with nothing changed
Rerun == BeginRun(FALSE) /\ w' = w

\* the dates the date inputs, drawn by the last run, offer
OfferedDates ==
    LET range == CacheGet(cache.date_range, <<>>) IN range[1][1]..range[2][1]

PickStartDate ==
    /\ ui.date_inputs
    /\ \E d \in OfferedDates : w' = [w EXCEPT !.start_date = Some(d)]
    /\ BeginRun(FALSE)

PickEndDate ==
    /\ ui.date_inputs
    /\ \E d \in OfferedDates : w' = [w EXCEPT !.end_date = Some(d)]
    /\ BeginRun(FALSE)

-----------------------------------------------------------------------------
(* The dashboard over a table of days 1..MaxDay, each with a midnight bar and one *)
(* bar in each default zone: on day 1 Zone 1 is above Zone 3 above Zone 2, the    *)
(* later days are flat                                                            *)

DayBars(d) ==
    IF d = 1
    THEN {FlatBar(d, T0000, 10000, SymES, CatES), FlatBar(d, T0300, 10000, SymES, CatES),
          FlatBar(d, T0930, 10005, SymES, CatES), FlatBar(d, T1800, 10010, SymES, CatES)}
    ELSE {FlatBar(d, t, 10000, SymES, CatES) : t \in {T0000, T0300, T0930, T1800}}

MainBars == UNION {DayBars(d) : d \in 1..MaxDay}

MainOff ==
    /\ w = DefaultWidgets
    /\ session = [k \in SessionKeys |-> Absent]
    /\ cache = [date_range |-> {}, group |-> {}, stats |-> {}]
    /\ loc = FreshLoc(FALSE, [k \in SessionKeys |-> Absent])
    /\ ui = FreshUi

\* a browser session opens the page: the first run of main() is due
Init ==
    /\ table \in {{}, MainBars}
    /\ args = NULL
    /\ df = NULL
    /\ fpc = "unused"
    /\ MainOff
    /\ pc = "start_date"

Next ==
    \/ StartDateFilter
    \/ EndDateFilter
    \/ GroupData
    \/ RetracementStats
    \/ Zone1RetracementStats
    \/ HighInOpenProbability
    \/ HighDistribution
    \/ LowInOpenProbability
    \/ LowDistribution
    \/ BullishBearishStats
    \/ Render
    \/ ClickRefresh
    \/ Rerun
    \/ PickStartDate
    \/ PickEndDate

Spec == Init /\ [][Next]_vars

-----------------------------------------------------------------------------
(* The checked calls of group_symbols_by_time_zone: tables and arguments *)

\* the subsets of U with at most n elements
RECURSIVE SubsetsUpTo(_, _)
SubsetsUpTo(U, n) ==
    IF n = 0 THEN {{}}
    ELSE LET S == SubsetsUpTo(U, n - 1) IN S \cup {s \cup {x} : s \in S, x \in U}

\* Zone family: one day of bars around the zones' edges, prices 0.09 and 0.10 apart
ZoneTimes == {T0015, T0300, T0930, T1800, T1900, T2345}
ZonePrices == {10000, 10009, 10010}
ZoneBars == {FlatBar(1, t, p, SymES, CatES) : t \in ZoneTimes, p \in ZonePrices}
ZoneArgs ==
    {[start_date |-> 1, end_date |-> 2, grouping |-> "day",
      zone1_start |-> z1, zone2_start |-> DefaultZone2Start, zone3_start |-> DefaultZone3Start,
      zone1_type |-> t1, zone2_type |-> t2, zone3_type |-> t3,
      symbol_filter_value |-> NoFilter, category_filter_value |-> NoFilter] :
        z1 \in {T1800, T2300, T2330}, t1 \in Zone1Types, t2 \in Zone2Types, t3 \in Zone3Types}

\* Date family: bars at midnight and at 09:30 of each day, every valid date range
DateBars == {FlatBar(d, t, 10000, SymES, CatES) : d \in 1..MaxDay, t \in {T0000, T0930}}
DateArgs ==
    {[start_date |-> se[1], end_date |-> se[2], grouping |-> "day",
      zone1_start |-> T0000, zone2_start |-> DefaultZone2Start, zone3_start |-> DefaultZone3Start,
      zone1_type |-> "Above Zone 2", zone2_type |-> "Above Zone 1",
      zone3_type |-> "Above Zone 1 & Zone 2",
      symbol_filter_value |-> NoFilter, category_filter_value |-> NoFilter] :
        se \in {p \in (1..MaxDay) \X (1..MaxDay) : p[1] <= p[2]}}

\* Filter family: bars of several symbols and categories, filter texts as typed
FilterBars ==
    {FlatBar(1, T0930, 10000, sc[1], sc[2]) :
        sc \in {<<SymES, CatES>>, <<SymEs, CatES>>, <<Sym6E, Cat6E>>, <<Sym6E, Cat6e>>}}
FilterTexts ==
    {NoFilter, <<" ">>, <<",">>, <<"6">>, <<"6", "E">>, <<"6", "e">>, <<" ", "e", "s", " ">>,
     <<"6", "E", ",", " ", "E", "S">>, <<"E", "S", "H">>, <<"6", "e", "h", ",">>}
FilterArgs ==
    {[start_date |-> 1, end_date |-> 2, grouping |-> "day",
      zone1_start |-> DefaultZone1Start, zone2_start |-> DefaultZone2Start,
      zone3_start |-> DefaultZone3Start,
      zone1_type |-> "Above Zone 2", zone2_type |-> "Above Zone 1",
      zone3_type |-> "Above Zone 1 & Zone 2",
      symbol_filter_value |-> sf, category_filter_value |-> cf] :
        sf \in FilterTexts, cf \in FilterTexts}

GroupInit ==
    /\ \/ table \in SubsetsUpTo(ZoneBars, MaxBars) /\ args \in ZoneArgs
       \/ table \in SubsetsUpTo(DateBars, MaxBars) /\ args \in DateArgs
       \/ table \in SubsetsUpTo(FilterBars, MaxBars) /\ args \in FilterArgs
    /\ df = NULL
    /\ fpc = "ready"
    /\ MainOff
    /\ pc = "off"

\* the call returns
GroupCall ==
    /\ fpc = "ready"
    /\ df' = Some(group_symbols_by_time_zone(table, args))
    /\ fpc' = "called"
    /\ UNCHANGED <<table, args, mvars>>

GroupNext == GroupCall

SpecGroup == GroupInit /\ [][GroupNext]_vars

Returned == IF fpc = "called" THEN {df[1][i] : i \in 1..Len(df[1])} ELSE {}
-----------------------------------------------------------------------------
(* Claims about group_symbols_by_time_zone, checked under SpecGroup *)

\* C1 (as claimed): every returned day satisfies all three selected conditions,
\* the Zone 1, the Zone 2 and the Zone 3 condition, on that day's zone highs
\* (stated for the days on which all three zones have a high).
C1_AllThreeConditions ==
    \A r \in Returned :
        (r.zone1_max # NULL /\ r.zone2_max # NULL /\ r.zone3_max # NULL)
            => Zone1Cond(args, r) /\ Zone2Cond(args, r) /\ Zone3Cond(args, r)

\* C2 (as claimed): a day is labelled 'above' (resp. 'below') only if the zone and
\* each compared zone have a high that day and the zone's high is strictly greater
\* (resp. less); a day with no bars in a compared zone is never labelled so.
C2_AboveBelowNeedBothZones ==
    \A r \in Returned :
        LET lab == r.zone_relationship
            z1 == r.zone1_max
            z2 == r.zone2_max
            z3 == r.zone3_max
        IN  /\ lab = "Zone 1 above Zone 2" => z1 # NULL /\ z2 # NULL /\ z1[1] > z2[1]
            /\ lab = "Zone 1 below Zone 2" => z1 # NULL /\ z2 # NULL /\ z1[1] < z2[1]
            /\ lab = "Zone 2 above Zone 1" => z1 # NULL /\ z2 # NULL /\ z2[1] > z1[1]
            /\ lab = "Zone 2 below Zone 1" => z1 # NULL /\ z2 # NULL /\ z2[1] < z1[1]
            /\ lab = "Zone 3 above Zone 1 & Zone 2" =>
                 z1 # NULL /\ z2 # NULL /\ z3 # NULL /\ z3[1] > z1[1] /\ z3[1] > z2[1]
            /\ lab = "Zone 3 below Zone 1 & Zone 2" =>
                 z1 # NULL /\ z2 # NULL /\ z3 # NULL /\ z3[1] < z1[1] /\ z3[1] < z2[1]

\* C3: a day is reported 'stacked' only when every zone involved has a high that
\* day and the zone's high differs from each compared zone's high by strictly less
\* than 0.1 (10 hundredths), in either order of the two zones; a difference of
\* exactly 0.1 is not stacked.
C3_StackedWithinTolerance ==
    \A r \in Returned :
        LET lab == r.zone_relationship
            z1 == r.zone1_max
            z2 == r.zone2_max
            z3 == r.zone3_max
        IN  /\ lab \in {"Zone 1 stacked with Zone 2", "Zone 2 stacked with Zone 1"} =>
                 /\ z1 # NULL /\ z2 # NULL
                 /\ z1[1] - z2[1] < 10 /\ z2[1] - z1[1] < 10
            /\ lab = "Zone 3 stacked with Zone 1 & Zone 2" =>
                 /\ z1 # NULL /\ z2 # NULL /\ z3 # NULL
                 /\ z3[1] - z1[1] < 10 /\ z1[1] - z3[1] < 10
                 /\ z3[1] - z2[1] < 10 /\ z2[1] - z3[1] < 10

\* C3 witness: a returned day labelled 'Zone 3 stacked with Zone 1 & Zone 2' whose
\* Zone 3 high is 0.09 from the Zone 1 high, in a table that also holds a price
\* exactly 0.10 away.
C3_Witness ==
    \E r \in Returned :
        /\ r.zone_relationship = "Zone 3 stacked with Zone 1 & Zone 2"
        /\ Abs(r.zone3_max[1] - r.zone1_max[1]) = 9
        /\ \E b \in table : Abs(b.high - r.zone1_max[1]) = 10

\* the bars of day d the query keeps whose clock time is in [zone_start, zone_start + 60)
SixtyMinuteBars(d, zone_start) ==
    {b \in WhereRows(table, args) :
        b.day = d /\ zone_start <= b.tm /\ b.tm < zone_start + 60}

\* C4 (as claimed): each zone lasts 60 minutes: a zone's high for a day is the
\* maximum high over exactly the bars with zone_start <= t < zone_start + 60
\* (stated for the zones that end before midnight).
C4_ZoneIsSixtyMinutes ==
    \A r \in Returned :
        /\ args.zone1_start + 60 < 1440 =>
             r.zone1_max = SqlMax({b.high : b \in SixtyMinuteBars(r.day, args.zone1_start)})
        /\ args.zone2_start + 60 < 1440 =>
             r.zone2_max = SqlMax({b.high : b \in SixtyMinuteBars(r.day, args.zone2_start)})
        /\ args.zone3_start + 60 < 1440 =>
             r.zone3_max = SqlMax({b.high : b \in SixtyMinuteBars(r.day, args.zone3_start)})

\* the bars of day d the query keeps whose clock time is inside a window that wraps
\* past midnight: from zone_start to 23:59, or from 00:00 to before zone_start + 60 - 24h
WrappedWindowBars(d, zone_start) ==
    {b \in WhereRows(table, args) :
        b.day = d /\ (zone_start <= b.tm \/ b.tm < zone_start + 60 - 1440)}

\* C5 (as claimed): a zone that starts later than 23:00 still gets its high from the
\* bars whose clock time lies inside its window, not from no bars at all.
C5_MidnightCrossingHandled ==
    \A r \in Returned :
        (args.zone1_start > 23 * 60 /\ WrappedWindowBars(r.day, args.zone1_start) # {})
            => r.zone1_max # NULL

\* the rows of a calendar-day-inclusive date filter, the other filters as in the query
InclusiveDayRows ==
    {b \in table : /\ args.start_date <= b.day /\ b.day <= args.end_date
                   /\ SymbolMatches(b, args.symbol_filter_value)
                   /\ CategoryMatches(b, args.category_filter_value)}

\* C6 (as claimed): the date range is inclusive of both ends: the result is the one
\* computed from the bars of every day d with start_date <= d <= end_date, at any
\* time of day.
C6_DateRangeInclusive ==
    fpc = "called" => df[1] = GroupRows(InclusiveDayRows, args)

IsPrefix(p, s) == Len(p) <= Len(s) /\ SubSeq(s, 1, Len(p)) = p

\* the rows whose category starts with one of the entered prefixes (trimmed,
\* compared case-insensitively); every row when the filter is empty or blank
PrefixCategoryRows ==
    {b \in table : /\ InDateRange(b, args.start_date, args.end_date)
                   /\ SymbolMatches(b, args.symbol_filter_value)
                   /\ \/ Strip(args.category_filter_value) = <<>>
                      \/ \E p \in FilterList(args.category_filter_value) :
                            IsPrefix(p, Upper(b.category))}

\* C7 (as claimed): a non-empty category filter selects exactly the rows whose
\* category starts with one of the comma-separated prefixes; an empty or blank
\* filter selects every row.
C7_CategoryPrefixFilter ==
    fpc = "called" => df[1] = GroupRows(PrefixCategoryRows, args)
-----------------------------------------------------------------------------
(* Claims about main(), checked under Spec *)

\* a run of main() has ended without an exception leaving main()
RunReturned == pc = "idle" /\ ~ui.raised

Count(seq, x) == Cardinality({i \in 1..Len(seq) : seq[i] = x})

\* C8 (as claimed): every database query failure during a run of main(), the
\* date-range lookup included, is caught and shown as an inline error message; no
\* exception leaves main(), and no failed query is sent again in the same run.
C8_QueryFailuresCaught ==
    /\ ~ui.raised
    /\ Len(ui.errors) >= Len(ui.failed)
    /\ \A i \in 1..Len(ui.failed) : Count(ui.queries, ui.failed[i]) = 1

\* the queries of the run other than the date-range lookup
DataQueries == SelectSeq(ui.queries, LAMBDA q : q # "get_date_range")

\* the value under a session key, a key not yet set counting as None (no result)
ResultOf(sess, k) == IF sess[k] = Absent THEN None ELSE sess[k]

\* the run's date validation (lines 100-106) had a missing or reversed date range
BadDateRange ==
    \/ loc.start_date = NULL
    \/ loc.end_date = NULL
    \/ loc.start_date[1] > loc.end_date[1]

\* C9: when the start date is later than the end date, or a date is missing, the run
\* of main() shows an error message, sends no grouping or analysis query, leaves the
\* result under every session key (df_grouped and the eight statistics) as it was
\* when the run began, and renders no dashboard section.
C9_BadDatesStopTheRun ==
    (RunReturned /\ BadDateRange) =>
        /\ ui.errors # <<>>
        /\ ui.errors[Len(ui.errors)] \in
              {"Please select a valid date range.",
               "Align the stars: Start date must be before or equal to the end date."}
        /\ DataQueries = <<>>
        /\ \A k \in SessionKeys : ResultOf(session, k) = ResultOf(loc.session0, k)
        /\ ui.rendered = {}
        /\ ~ui.button

\* C9 witness: a run that began with results in the session state has ended at the
\* validation with a start date later than the end date.
C9_Witness ==
    /\ RunReturned
    /\ loc.start_date # NULL /\ loc.end_date # NULL
    /\ loc.start_date[1] > loc.end_date[1]
    /\ loc.session0["df_grouped"].kind = "DataFrame"
    /\ loc.session0["bullish_bearish_daily"].kind = "result"

\* C10 (as claimed): a run of main() triggered by one click of 'Refresh Data' sends
\* a single database query for the dashboard data, not several.
C10_OneQueryPerClick ==
    (RunReturned /\ loc.click) => Len(DataQueries) <= 1

\* C10 (amended): a run of main() triggered by one click of 'Refresh Data' sends at
\* most one grouping query and then, when days match, at most one query for each of
\* the six single-query analysis functions and two for get_bullish_bearish_stats:
\* up to nine queries for the dashboard data, the grouping query (if sent) first,
\* none twice.
C10_UpToNineQueriesPerClick ==
    loc.click =>
        /\ Len(DataQueries) <= 9
        /\ \A i \in 1..Len(DataQueries) : Count(DataQueries, DataQueries[i]) = 1
        /\ \A i \in 2..Len(DataQueries) : DataQueries[i] # "group_symbols_by_time_zone"

\* C10 witness: a run triggered by a click has sent all nine queries and rendered.
C10_Witness ==
    /\ RunReturned
    /\ loc.click
    /\ Len(DataQueries) = 9
    /\ ui.rendered = DashboardSections
-----------------------------------------------------------------------------
(* analysis.py: the statistics over the selected days.  The columns hour and  *)
(* minute of f_ohlcv are those of ts_event.                                   *)

\* MIN(expr) over a group: NULL when no row contributes
SqlMin(S) == IF S = {} THEN NULL ELSE Some(SetMin(S))

\* DATE(ts_event) IN :selected_days
DaySet(selected_days) == {selected_days[i] : i \in 1..Len(selected_days)}

\* EXTRACT(HOUR FROM t), EXTRACT(MINUTE FROM t) and DATE(t) of a timestamp
HourOf(t) == (t % MinutesPerDay) \div 60
MinuteOf(t) == (t % MinutesPerDay) % 60
DateOf(t) == t \div MinutesPerDay

\* SELECT bucket, COUNT(*) AS count FROM ... GROUP BY bucket ORDER BY bucket,
\* over rows that carry a bucket
BucketCounts(rows) ==
    LET buckets == SortedSeq({r.bucket : r \in rows})
    IN  [i \in 1..Len(buckets) |->
            [bucket |-> buckets[i],
             count |-> Cardinality({r \in rows : r.bucket = buckets[i]})]]

\* midnight_opens: a row per 00:00 bar of a selected day
MidnightOpens(T, selected_days) ==
    {[day |-> b.day, midnight_open |-> b.open] :
        b \in {x \in T : Hour(x) = 0 /\ Minute(x) = 0 /\ x.day \in DaySet(selected_days)}}

\* first_retracements: per day of midnight_opens, MIN(f.ts_event) over the joined
\* bars f (LEFT JOIN: NULL when no bar joins)
FirstRetracementTime(T, mo, d) ==
    SqlMin({TsEvent(f) : f \in {x \in T :
                /\ x.day = d
                /\ Hour(x) >= 8 /\ Hour(x) <= 15
                /\ \E m \in mo : /\ m.day = d
                                 /\ x.low <= m.midnight_open
                                 /\ x.high >= m.midnight_open}})

RetracementBucketFromNine(t) ==
    IF t # NULL THEN (HourOf(t[1]) - 9) * 2 + (MinuteOf(t[1]) \div 30) ELSE -1
\* the CASE of bucketed
RetracementBucket(t) ==
    IF t # NULL THEN (HourOf(t[1]) - 8) * 2 + (MinuteOf(t[1]) \div 30) ELSE -1

get_retracement_stats(T, selected_days) ==
    LET mo == MidnightOpens(T, selected_days)
        bucketed == {[day |-> d, bucket |-> RetracementBucket(FirstRetracementTime(T, mo, d))] :
                        d \in {m.day : m \in mo}}
    IN  BucketCounts(bucketed)

\* a label f"{start_time}-{end_time}" with times f"{hour:02d}:{minute:02d}"
Label(start_hour, start_minute, end_hour, end_minute) ==
    [start |-> <<start_hour, start_minute>>, end |-> <<end_hour, end_minute>>]

\* the labels of one hour, for minute in [0, 30]
HourLabels(hour) ==
    <<Label(hour, 0, hour, 30), Label(hour, 30, hour + 1, 0)>>

RECURSIVE LabelsFrom(_, _)
LabelsFrom(hour, stop) ==
    IF hour >= stop THEN <<>> ELSE HourLabels(hour) \o LabelsFrom(hour + 1, stop)

\* for hour in range(8, 16)
get_time_bucket_labels == LabelsFrom(8, 16)

\* plot_retracement_bar_chart: the label of a bucket >= 0 (0-based list index)
UnknownLabel == [text |-> "Unknown"]
TimeBucketLabel(x) ==
    IF x < Len(get_time_bucket_labels) THEN get_time_bucket_labels[x + 1] ELSE UnknownLabel

RECURSIVE SumCounts(_)
SumCounts(rows) == IF rows = <<>> THEN 0 ELSE Head(rows).count + SumCounts(Tail(rows))

\* plot_retracement_bar_chart, lines 19-23
RetracedCount(retracement_df) ==
    SumCounts(SelectSeq(retracement_df, LAMBDA r : r.bucket >= 0))
DidNotRetraceCount(retracement_df) ==
    SumCounts(SelectSeq(retracement_df, LAMBDA r : r.bucket = -1))
TotalDays(retracement_df) ==
    RetracedCount(retracement_df) + DidNotRetraceCount(retracement_df)
\* zone1_prices: per selected day with bars at 18:00..18:05, MIN(open)
Zone1PriceBars(T, d) == {x \in T : x.day = d /\ Hour(x) = 18 /\ Minute(x) >= 0 /\ Minute(x) <= 5}
Zone1Price(T, d) == SqlMin({b.open : b \in Zone1PriceBars(T, d)})

\* zone3_formed: per selected day with bars at 09:30..09:35, MAX(ts_event)
Zone3Bars(T, d) == {x \in T : x.day = d /\ Hour(x) = 9 /\ Minute(x) >= 30 /\ Minute(x) <= 35}
Zone3EndTime(T, d) == SqlMax({TsEvent(b) : b \in Zone3Bars(T, d)})

\* the bars joined to a zone3_formed row: later than zone3_end_time and before
\* DATE_TRUNC('day', zone3_end_time) + INTERVAL '16 hours'
BarsAfterZone3(T, d) ==
    LET z3 == Zone3EndTime(T, d)
    IN  IF z3 = NULL THEN {}
        ELSE {f \in T : /\ f.day = d
                        /\ TsEvent(f) > z3[1]
                        /\ TsEvent(f) < DateOf(z3[1]) * MinutesPerDay + 16 * 60}

\* first_zone1_retracements: MIN(f.ts_event) for the day; no row (NULL after the
\* LEFT JOIN of bucketed) when no bar joins or the day has no zone1_prices row
FirstZone1RetracementTime(T, d) ==
    LET z1 == Zone1Price(T, d)
    IN  IF z1 = NULL THEN NULL
        ELSE SqlMin({TsEvent(f) : f \in {x \in BarsAfterZone3(T, d) :
                                            x.low <= z1[1] /\ x.high >= z1[1]}})

\* FLOOR(EXTRACT(EPOCH FROM (first_retracement_time - zone3_end_time)) / 1800), ELSE -1
Zone1RetracementBucket(t, zone3_end_time) ==
    IF t # NULL THEN ((t[1] - zone3_end_time[1]) * 60) \div 1800 ELSE -1

get_zone1_retracement_stats(T, selected_days) ==
    LET days == {d \in DaySet(selected_days) : Zone3Bars(T, d) # {}}
        bucketed == {[day |-> d,
                      bucket |-> Zone1RetracementBucket(FirstZone1RetracementTime(T, d),
                                                        Zone3EndTime(T, d))] : d \in days}
    IN  BucketCounts(bucketed)

\* datetime.strftime("%H:%M") of a time counted in minutes
ClockOf(minutes) == <<HourOf(minutes), MinuteOf(minutes)>>

\* the while loop of get_zone1_time_bucket_labels
RECURSIVE Zone1LabelsFrom(_, _)
Zone1LabelsFrom(current, end) ==
    IF current < end
    THEN <<[start |-> ClockOf(current), end |-> ClockOf(current + 30)]>>
            \o Zone1LabelsFrom(current + 30, end)
    ELSE <<>>

\* start 09:35, end 16:00
get_zone1_time_bucket_labels == Zone1LabelsFrom(9 * 60 + 35, 16 * 60)

\* a probability result / total_days
Ratio(num, den) == [num |-> num, den |-> den]

\* day_highs of get_high_in_open_probability: MAX(high) over the bars of the day
\* with hour 9..15
OpenSessionBars(T, d) == {x \in T : x.day = d /\ Hour(x) >= 9 /\ Hour(x) <= 15}

\* the days counted: those whose day_high is the high of a bar with hour = 9
HighInOpenDays(T, selected_days) ==
    {d \in DaySet(selected_days) :
        /\ OpenSessionBars(T, d) # {}
        /\ \E f \in T : /\ f.day = d
                        /\ Hour(f) = 9
                        /\ f.high = SetMax({b.high : b \in OpenSessionBars(T, d)})}

get_high_in_open_probability(T, selected_days) ==
    LET result == Cardinality(HighInOpenDays(T, selected_days))
        total_days == Len(selected_days)
    IN  IF total_days > 0 THEN Ratio(result, total_days) ELSE Ratio(0, 1)

LowInOpenDays(T, selected_days) ==
    {d \in DaySet(selected_days) :
        /\ OpenSessionBars(T, d) # {}
        /\ \E f \in T : /\ f.day = d
                        /\ Hour(f) = 9
                        /\ f.low = SetMin({b.low : b \in OpenSessionBars(T, d)})}

get_low_in_open_probability(T, selected_days) ==
    LET result == Cardinality(LowInOpenDays(T, selected_days))
        total_days == Len(selected_days)
    IN  IF total_days > 0 THEN Ratio(result, total_days) ELSE Ratio(0, 1)

DayBarsOf(T, d) == {x \in T : x.day = d}

\* first_high_times: MIN(ts_event) over the day's bars whose high is the day's MAX(high)
FirstHighTime(T, d) ==
    SetMin({TsEvent(f) : f \in {x \in DayBarsOf(T, d) :
                                   x.high = SetMax({b.high : b \in DayBarsOf(T, d)})}})

FirstLowTime(T, d) ==
    SetMin({TsEvent(f) : f \in {x \in DayBarsOf(T, d) :
                                   x.low = SetMin({b.low : b \in DayBarsOf(T, d)})}})

HourlyBucket(t) == (HourOf(t) * 60 + MinuteOf(t)) \div 60
\* FLOOR((hour * 60 + minute) / 30)
HalfHourBucket(t) == (HourOf(t) * 60 + MinuteOf(t)) \div 30

\* all_buckets.merge(df, on='bucket', how='left').fillna({'count': 0})
AllBuckets(counts) ==
    [i \in 1..48 |->
        [bucket |-> i - 1,
         count |-> IF \E j \in 1..Len(counts) : counts[j].bucket = i - 1
                   THEN (CHOOSE r \in {counts[j] : j \in 1..Len(counts)} : r.bucket = i - 1).count
                   ELSE 0]]

get_high_distribution(T, selected_days) ==
    AllBuckets(BucketCounts(
        {[day |-> d, bucket |-> HalfHourBucket(FirstHighTime(T, d))] :
            d \in {x \in DaySet(selected_days) : DayBarsOf(T, x) # {}}}))

get_low_distribution(T, selected_days) ==
    AllBuckets(BucketCounts(
        {[day |-> d, bucket |-> HalfHourBucket(FirstLowTime(T, d))] :
            d \in {x \in DaySet(selected_days) : DayBarsOf(T, x) # {}}}))
\* daily_ohlc keeps the bars with hour = 9 AND minute = 30 of the selected days, one
\* row per bar
FirstCandles(T, d) == {x \in T : x.day = d /\ Hour(x) = 9 /\ Minute(x) = 30}

CandleDays(T, selected_days) == {d \in DaySet(selected_days) : FirstCandles(T, d) # {}}

\* PARTITION BY DATE(ts_event) ORDER BY ts_event leaves the order of a day's bars
\* of equal ts_event open: an order gives each day the bar sorted first and the
\* bar sorted last, two different bars when the day has several
CandleOrders(T, selected_days) ==
    {o \in [CandleDays(T, selected_days) -> T \X T] :
        \A d \in CandleDays(T, selected_days) :
            /\ o[d][1] \in FirstCandles(T, d)
            /\ o[d][2] \in FirstCandles(T, d)
            /\ Cardinality(FirstCandles(T, d)) > 1 => o[d][1] # o[d][2]}

\* the CASE of day_types
DayType(day_open, day_close) ==
    IF day_close > day_open THEN "Bullish"
    ELSE IF day_close < day_open THEN "Bearish"
    ELSE "Neutral"

\* first_value(open) and last_value(close) over the day's partition
DayTypeOf(order, d) == DayType(order[d][1].open, order[d][2].close)

\* the rows of day_types with a given type: one per bar of daily_ohlc
TypeRows(T, selected_days, order, type) ==
    {b \in T : /\ b.day \in CandleDays(T, selected_days)
               /\ b \in FirstCandles(T, b.day)
               /\ DayTypeOf(order, b.day) = type}

\* SELECT day_type, COUNT(*), COUNT(*) * 100.0 / (SELECT COUNT(*) FROM day_types)
\* GROUP BY day_type: the rows as a set (their order, by count, is not used below)
BullishBearishSummary(T, selected_days, order) ==
    LET total == Cardinality(UNION {FirstCandles(T, d) : d \in CandleDays(T, selected_days)})
    IN  {[day_type |-> type,
          count |-> Cardinality(TypeRows(T, selected_days, order, type)),
          percentage |-> Ratio(Cardinality(TypeRows(T, selected_days, order, type)) * 100,
                               total)] :
            type \in {t \in {"Bullish", "Bearish", "Neutral"} :
                         TypeRows(T, selected_days, order, t) # {}}}

RECURSIVE Repeat(_, _)
Repeat(x, n) == IF n = 0 THEN <<>> ELSE <<x>> \o Repeat(x, n - 1)

RECURSIVE DailyRows(_, _, _)
DailyRows(T, order, days) ==
    IF days = <<>> THEN <<>>
    ELSE Repeat([day |-> Head(days), day_type |-> DayTypeOf(order, Head(days))],
                Cardinality(FirstCandles(T, Head(days))))
            \o DailyRows(T, order, Tail(days))

\* SELECT day, day_type FROM day_types ORDER BY day
BullishBearishDaily(T, selected_days, order) ==
    DailyRows(T, order, SortedSeq(CandleDays(T, selected_days)))

\* return summary_df, daily_type_df: two queries, each with its own sort
get_bullish_bearish_stats(T, selected_days, order1, order2) ==
    <<BullishBearishSummary(T, selected_days, order1),
      BullishBearishDaily(T, selected_days, order2)>>

-----------------------------------------------------------------------------
(* The checked calls of the analysis functions: tables and selected days *)

\* a bar that rises from 100.00 to 100.05 and spans 99.90..100.10
UpBar(d, t, sym, cat) == Bar(d, t, 10000, 10010, 9990, 10005, sym, cat)
\* a bar that falls from 100.20 to 100.18 and spans 100.15..100.30
HighBar(d, t, sym, cat) == Bar(d, t, 10020, 10030, 10015, 10018, sym, cat)

T1040 == 10 * 60 + 40

StatTimes == {T0000, T0930, T1040, T1800}
StatBars ==
    UNION {{FlatBar(d, t, 10000, SymES, CatES), UpBar(d, t, SymES, CatES),
            HighBar(d, t, SymES, CatES)} : d \in 1..MaxDay, t \in StatTimes}
      \cup {UpBar(1, T0930, Sym6E, Cat6E)}

\* the lists of days a grouping result can hold: distinct days in ascending order
StatArgs == {[selected_days |-> SortedSeq(S)] : S \in SUBSET (1..MaxDay)}

\* tables of up to MaxBars bars, at most one bar per symbol and timestamp
StatTables ==
    {T \in SubsetsUpTo(StatBars, MaxBars) :
        \A a \in T : \A b \in T :
            (a.day = b.day /\ a.tm = b.tm /\ a.symbol = b.symbol) => a = b}

StatsInit ==
    /\ table \in StatTables
    /\ args \in StatArgs
    /\ df = NULL
    /\ fpc = "ready"
    /\ MainOff
    /\ pc = "off"

\* a call of fn returns value
Returns(fn, value) ==
    /\ fpc = "ready"
    /\ df' = Some(value)
    /\ fpc' = fn
    /\ UNCHANGED <<table, args, mvars>>

CallRetracementStats ==
    Returns("get_retracement_stats", get_retracement_stats(table, args.selected_days))

CallZone1RetracementStats ==
    Returns("get_zone1_retracement_stats",
            get_zone1_retracement_stats(table, args.selected_days))

CallZone1TimeBucketLabels ==
    Returns("get_zone1_time_bucket_labels", get_zone1_time_bucket_labels)

CallHighInOpenProbability ==
    Returns("get_high_in_open_probability",
            get_high_in_open_probability(table, args.selected_days))

CallLowInOpenProbability ==
    Returns("get_low_in_open_probability",
            get_low_in_open_probability(table, args.selected_days))

CallHighDistribution ==
    Returns("get_high_distribution", get_high_distribution(table, args.selected_days))

CallLowDistribution ==
    Returns("get_low_distribution", get_low_distribution(table, args.selected_days))

CallBullishBearishStats ==
    \E order1 \in CandleOrders(table, args.selected_days) :
        \E order2 \in CandleOrders(table, args.selected_days) :
            Returns("get_bullish_bearish_stats",
                    get_bullish_bearish_stats(table, args.selected_days, order1, order2))

StatsNext ==
    \/ CallRetracementStats
    \/ CallZone1RetracementStats
    \/ CallZone1TimeBucketLabels
    \/ CallHighInOpenProbability
    \/ CallLowInOpenProbability
    \/ CallHighDistribution
    \/ CallLowDistribution
    \/ CallBullishBearishStats

SpecStats == StatsInit /\ [][StatsNext]_vars

\* the selected days that have a bar in f_ohlcv
DaysWithBars == {d \in DaySet(args.selected_days) : DayBarsOf(table, d) # {}}
-----------------------------------------------------------------------------
(* Claims about the analysis functions, checked under SpecStats *)

\* the count a bucketed result reports for bucket k (0 when it has no such row)
CountOf(rows, k) == SumCounts(SelectSeq(rows, LAMBDA r : r.bucket = k))

\* the selected days that have a 00:00 bar
MidnightDays == {d \in DaySet(args.selected_days) : \E m \in table : m.day = d /\ m.tm = 0}

\* the bars of day d between 08:00 and 15:59 whose low..high range holds the open of
\* the day's 00:00 bar
TouchingBars(d) ==
    {b \in table : /\ b.day = d
                   /\ 8 * 60 <= b.tm /\ b.tm < 16 * 60
                   /\ \E m \in table : /\ m.day = d /\ m.tm = 0
                                       /\ b.low <= m.open /\ m.open <= b.high}

FirstTouch(d) == SetMin({b.tm : b \in TouchingBars(d)})

ExpectedBucket(d) ==
    IF TouchingBars(d) = {} THEN -1
    ELSE (FirstTouch(d) \div 60 - 8) * 2 + ((FirstTouch(d) % 60) \div 30)

\* C11: get_retracement_stats counts each selected day that has a 00:00 bar in
\* bucket -1 iff no bar of the day with hour 8..15 has low <= midnight open <= high,
\* and otherwise in bucket (h-8)*2 + floor(m/30) for the time h:m of the earliest
\* such bar; that bucket is in 0..15 and its label of get_time_bucket_labels is the
\* half hour that contains h:m, never 'Unknown'.
C11_RetracementBuckets ==
    fpc = "get_retracement_stats" =>
        /\ \A k \in -1..15 :
              CountOf(df[1], k) = Cardinality({d \in MidnightDays : ExpectedBucket(d) = k})
        /\ \A i \in 1..Len(df[1]) : df[1][i].bucket \in -1..15 /\ df[1][i].count > 0
        /\ \A d \in MidnightDays :
              TouchingBars(d) # {} =>
                  LET lab == TimeBucketLabel(ExpectedBucket(d))
                  IN  /\ ExpectedBucket(d) \in 0..15
                      /\ lab # UnknownLabel
                      /\ lab.start[1] * 60 + lab.start[2] <= FirstTouch(d)
                      /\ FirstTouch(d) < lab.end[1] * 60 + lab.end[2]
                      /\ lab.end[1] * 60 + lab.end[2] = lab.start[1] * 60 + lab.start[2] + 30

\* C11 witness: one selected day whose 09:30 bar stays above the midnight open and
\* whose 10:40 bar is the first to reach it, counted in bucket 5 (10:30-11:00).
C11_Witness ==
    /\ fpc = "get_retracement_stats"
    /\ args.selected_days = <<1>>
    /\ df[1] = <<[bucket |-> 5, count |-> 1]>>
    /\ \E b \in table : b.day = 1 /\ b.tm = T0930
    /\ TimeBucketLabel(5) = Label(10, 30, 11, 0)

\* C12 (as claimed): the counts of get_retracement_stats over all buckets, -1
\* included, sum to the number of selected days (days that have bars, as every day
\* of a grouping result has), so that retraced_count + did_not_retrace_count of
\* plot_retracement_bar_chart is the number of days being analysed.
C12_CountsSumToSelectedDays ==
    fpc = "get_retracement_stats" => TotalDays(df[1]) = Cardinality(DaysWithBars)

\* C13 (as claimed): in get_zone1_retracement_stats the Zone 1 reference price of a
\* day comes from bars that occur earlier in time than every bar examined for that
\* day's retracement (the bars after Zone 3 has formed and before 16:00).
C13_ReferenceBeforeRetracement ==
    fpc = "get_zone1_retracement_stats" =>
        \A d \in DaySet(args.selected_days) :
            \A r \in Zone1PriceBars(table, d) :
                \A e \in BarsAfterZone3(table, d) : TsEvent(r) < TsEvent(e)

\* the time of day of the earliest bar of day d whose high is the day's maximum high
EarliestHighOfDay(d) ==
    SetMin({b.tm : b \in {x \in table : /\ x.day = d
                                        /\ \A y \in table : y.day = d => y.high <= x.high}})

\* the time of day of the earliest bar of day d whose low is the day's minimum low
EarliestLowOfDay(d) ==
    SetMin({b.tm : b \in {x \in table : /\ x.day = d
                                        /\ \A y \in table : y.day = d => x.low <= y.low}})

HighOfDayInOpenHour ==
    {d \in DaysWithBars :
        \E b \in table : /\ b.day = d /\ 9 * 60 <= b.tm /\ b.tm < 10 * 60
                         /\ \A y \in table : y.day = d => y.high <= b.high}

LowOfDayInOpenHour ==
    {d \in DaysWithBars :
        \E b \in table : /\ b.day = d /\ 9 * 60 <= b.tm /\ b.tm < 10 * 60
                         /\ \A y \in table : y.day = d => b.low <= y.low}

\* a returned probability is n out of the selected days (0 when none is selected)
\* and lies between 0 and 1
IsShareOfSelectedDays(p, n) ==
    /\ 0 <= p.num /\ p.num <= p.den
    /\ IF args.selected_days = <<>> THEN p.num = 0
       ELSE p.num * Len(args.selected_days) = n * p.den

\* C15 (as claimed): get_high_in_open_probability returns the number of selected
\* days whose high of day, the maximum high over all of that day's bars, is attained
\* by a bar in the hour 09:00-09:59, divided by the number of selected days, 0 when
\* no days are selected, always between 0 and 1; get_low_in_open_probability
\* likewise with the minimum low of the day.
C15_OpenHourProbability ==
    /\ fpc = "get_high_in_open_probability" =>
          IsShareOfSelectedDays(df[1], Cardinality(HighOfDayInOpenHour))
    /\ fpc = "get_low_in_open_probability" =>
          IsShareOfSelectedDays(df[1], Cardinality(LowOfDayInOpenHour))

RECURSIVE SumOfCounts(_)
SumOfCounts(rows) ==
    IF rows = {} THEN 0
    ELSE LET r == CHOOSE x \in rows : TRUE IN r.count + SumOfCounts(rows \ {r})

\* C16 (as claimed): get_bullish_bearish_stats counts days: the daily breakdown has
\* at most one row per selected day, the Bullish, Bearish and Neutral counts of the
\* summary sum to the number of distinct days classified, and each percentage is
\* its count over that number of days.
C16_BullishBearishCountsDays ==
    fpc = "get_bullish_bearish_stats" =>
        LET summary == df[1][1]
            daily == df[1][2]
            days == {daily[i].day : i \in 1..Len(daily)}
        IN  /\ \A i \in 1..Len(daily) : \A j \in 1..Len(daily) :
                  i # j => daily[i].day # daily[j].day
            /\ days \subseteq DaySet(args.selected_days)
            /\ SumOfCounts(summary) = Cardinality(days)
            /\ \A r \in summary :
                  r.percentage.num * Cardinality(days) = r.count * 100 * r.percentage.den

\* the bars of day d at the day's earliest and at its latest time
EarliestBars(d) == {b \in table : b.day = d /\ \A y \in table : y.day = d => b.tm <= y.tm}
LatestBars(d) == {b \in table : b.day = d /\ \A y \in table : y.day = d => y.tm <= b.tm}

\* C17 (as claimed): a day is classified Bullish iff day_close > day_open, Bearish
\* iff day_close < day_open and Neutral iff they are equal, day_open being the open
\* of the earliest bar of the day and day_close the close of its latest bar
\* (stated for the days that have one earliest and one latest bar).
C17_DayTypeFromFirstAndLastBar ==
    fpc = "get_bullish_bearish_stats" =>
        LET daily == df[1][2]
        IN  \A i \in 1..Len(daily) :
                \A o \in EarliestBars(daily[i].day) : \A c \in LatestBars(daily[i].day) :
                    (Cardinality(EarliestBars(daily[i].day)) = 1
                        /\ Cardinality(LatestBars(daily[i].day)) = 1) =>
                        /\ daily[i].day_type = "Bullish" <=> c.close > o.open
                        /\ daily[i].day_type = "Bearish" <=> c.close < o.open
                        /\ daily[i].day_type = "Neutral" <=> c.close = o.open

\* the minute of the day a label's clock time stands for
ClockMinutes(c) == c[1] * 60 + c[2]

\* C20 (as claimed): get_zone1_time_bucket_labels returns consecutive 30-minute
\* intervals from 09:35 until the end of day at 16:00: the first label starts at
\* 09:35, each label starts where the previous one ends, and no label ends later
\* than 16:00.
C20_Zone1LabelsEndBySixteen ==
    fpc = "get_zone1_time_bucket_labels" =>
        /\ df[1] # <<>>
        /\ df[1][1].start = <<9, 35>>
        /\ \A i \in 1..Len(df[1]) :
              /\ ClockMinutes(df[1][i].end) = ClockMinutes(df[1][i].start) + 30
              /\ i > 1 => df[1][i].start = df[1][i - 1].end
              /\ ClockMinutes(df[1][i].end) <= 16 * 60

-----------------------------------------------------------------------------
(* data_utils.py: filter_zones over the rows of a loaded DataFrame *)

ZoneNames == <<"Asia", "London", "New York">>

\* the default zone_opening_hours
DefaultOpeningHours == [z \in {"Asia", "London", "New York"} |->
                           CASE z = "Asia" -> 19 [] z = "London" -> 3 [] z = "New York" -> 9]

\* zone_start_minutes
ZoneStartMinute(zone, zone_opening_hours) ==
    IF zone = "New York" /\ zone_opening_hours["New York"] = 9 THEN 30 ELSE 0

\* end_time = (datetime.combine(today, start_time) + timedelta(minutes=minutes)).time()
ZoneEndTime(opening_hour, start_minute, minutes) ==
    (opening_hour * 60 + start_minute + minutes) % MinutesPerDay

\* the test of line 175
CrossesMidnight(opening_hour, start_minute, end_hour, end_minute) ==
    end_hour < opening_hour \/ (end_hour = opening_hour /\ end_minute <= start_minute)

\* the row masks of lines 177-190 and 193-210
InZoneRows(r, opening_hour, start_minute, minutes) ==
    LET end_time == ZoneEndTime(opening_hour, start_minute, minutes)
        end_hour == end_time \div 60
        end_minute == end_time % 60
    IN  IF CrossesMidnight(opening_hour, start_minute, end_hour, end_minute)
        THEN \/ r.hour_est = opening_hour /\ r.minute_est >= start_minute
             \/ r.hour_est < end_hour
             \/ r.hour_est = end_hour /\ r.minute_est < end_minute
        ELSE \/ /\ r.hour_est = opening_hour
                /\ r.minute_est >= start_minute
                /\ \/ r.hour_est < end_hour
                   \/ r.hour_est = end_hour /\ r.minute_est < end_minute
             \/ r.hour_est > opening_hour /\ r.hour_est < end_hour
             \/ r.hour_est = end_hour /\ r.minute_est < end_minute

\* zone_minutes
ZoneMinutesOf(zone, a) ==
    CASE zone = "Asia" -> a.first_minutes_asia
      [] zone = "London" -> a.first_minutes_london
      [] zone = "New York" -> a.first_minutes_ny

\* zone_df: the rows the mask of a zone keeps
ZoneRows(rows, zone, a, hours) ==
    {r \in rows : InZoneRows(r, hours[zone], ZoneStartMinute(zone, hours),
                             ZoneMinutesOf(zone, a))}

\* zone_df["Zone"] = zone
Tagged(r, zone) ==
    [ts_est |-> r.ts_est, hour_est |-> r.hour_est, minute_est |-> r.minute_est,
     Zone |-> zone]

ZoneIndex(zone) == CHOOSE i \in 1..Len(ZoneNames) : ZoneNames[i] = zone

\* new_df.sort_values("ts_est"): rows of equal ts_est stay in the order of the
\* concatenation, which is the order of the zones in zone_opening_hours
SortByTsEst(tagged) ==
    LET keys == SortedSeq({r.ts_est * 4 + ZoneIndex(r.Zone) : r \in tagged})
    IN  [i \in 1..Len(keys) |->
            CHOOSE r \in tagged : r.ts_est * 4 + ZoneIndex(r.Zone) = keys[i]]

filter_zones(rows, a) ==
    LET hours == IF a.zone_opening_hours = NULL THEN DefaultOpeningHours
                 ELSE a.zone_opening_hours[1]
        tagged == UNION {{Tagged(r, ZoneNames[i]) : r \in ZoneRows(rows, ZoneNames[i], a, hours)} :
                            i \in 1..Len(ZoneNames)}
    IN  IF rows = {} THEN <<>> ELSE SortByTsEst(tagged)

-----------------------------------------------------------------------------
(* The checked calls of filter_zones: rows of one day and zone settings *)

\* a row of the DataFrame of load_data: one symbol, so one row per timestamp
ZoneRow(d, t) == [ts_est |-> d * MinutesPerDay + t, hour_est |-> t \div 60,
                  minute_est |-> t % 60]

T0029 == 0 * 60 + 29
T0030 == 0 * 60 + 30
T0329 == 3 * 60 + 29
T0330 == 3 * 60 + 30
T0900 == 9 * 60 + 0
T0929 == 9 * 60 + 29
T0944 == 9 * 60 + 44
T0945 == 9 * 60 + 45
T2000 == 20 * 60 + 0
T2359 == 23 * 60 + 59

ZoneRowTimes ==
    {T0000, T0029, T0030, T0300, T0329, T0330, T0900, T0929, T0930, T0944, T0945,
     T1900, T2000, T2300, T2359}

ZoneRowsUniverse == {ZoneRow(1, t) : t \in ZoneRowTimes}

OpeningHours(asia, london, ny) ==
    [z \in {"Asia", "London", "New York"} |->
        CASE z = "Asia" -> asia [] z = "London" -> london [] z = "New York" -> ny]

FilterZonesArgs ==
    {[first_minutes_asia |-> xa, first_minutes_london |-> 30, first_minutes_ny |-> xn,
      zone_opening_hours |-> h] :
        xa \in {30, 60, 330}, xn \in {15, 30, 45},
        h \in {NULL, Some(OpeningHours(23, 3, 9)), Some(OpeningHours(19, 3, 8))}}

ZonesInit ==
    /\ table \in SubsetsUpTo(ZoneRowsUniverse, MaxBars)
    /\ args \in FilterZonesArgs
    /\ df = NULL
    /\ fpc = "ready"
    /\ MainOff
    /\ pc = "off"

CallFilterZones ==
    /\ fpc = "ready"
    /\ df' = Some(filter_zones(table, args))
    /\ fpc' = "filter_zones"
    /\ UNCHANGED <<table, args, mvars>>

ZonesNext == CallFilterZones

SpecZones == ZonesInit /\ [][ZonesNext]_vars

-----------------------------------------------------------------------------
(* Claims about filter_zones, checked under SpecZones *)

\* the opening hours in force, and a zone's opening time and length in minutes
HoursInForce ==
    IF args.zone_opening_hours = NULL THEN DefaultOpeningHours ELSE args.zone_opening_hours[1]
OpeningTime(zone) ==
    HoursInForce[zone] * 60 + (IF zone = "New York" /\ HoursInForce[zone] = 9 THEN 30 ELSE 0)
FirstMinutes(zone) ==
    CASE zone = "Asia" -> args.first_minutes_asia
      [] zone = "London" -> args.first_minutes_london
      [] zone = "New York" -> args.first_minutes_ny

\* the input rows returned with the zone's name
ReturnedFor(zone) ==
    {[ts_est |-> df[1][i].ts_est, hour_est |-> df[1][i].hour_est,
      minute_est |-> df[1][i].minute_est] :
        i \in {j \in 1..Len(df[1]) : df[1][j].Zone = zone}}

TimeOfRow(r) == r.hour_est * 60 + r.minute_est

\* C18 (as claimed): for a zone whose window of X >= 1 minutes does not cross
\* midnight, filter_zones returns with the zone's name exactly the input rows whose
\* time lies in [opening time, opening time + X), the opening time being
\* opening_hour:00 (09:30 for New York when its opening hour is 9); no row earlier
\* than the opening time is returned for the zone.
C18_FirstMinutesOfZone ==
    fpc = "filter_zones" =>
        \A zone \in {"Asia", "London", "New York"} :
            (FirstMinutes(zone) >= 1 /\ OpeningTime(zone) + FirstMinutes(zone) < 24 * 60) =>
                ReturnedFor(zone) =
                    {r \in table : /\ OpeningTime(zone) <= TimeOfRow(r)
                                   /\ TimeOfRow(r) < OpeningTime(zone) + FirstMinutes(zone)}

\* C19 (as claimed): for a zone whose window crosses midnight (opening time + X
\* falls on the next day), filter_zones returns with the zone's name exactly the
\* rows from the opening time through 23:59 together with the rows from 00:00 up to
\* but not including the end time.
C19_WindowAcrossMidnight ==
    fpc = "filter_zones" =>
        \A zone \in {"Asia", "London", "New York"} :
            (OpeningTime(zone) + FirstMinutes(zone) >= 24 * 60
                /\ FirstMinutes(zone) < 24 * 60) =>
                ReturnedFor(zone) =
                    {r \in table : \/ OpeningTime(zone) <= TimeOfRow(r)
                                   \/ TimeOfRow(r) < OpeningTime(zone) + FirstMinutes(zone)
                                                        - 24 * 60}
-----------------------------------------------------------------------------
(* The summary cards and the refresh, checked under Spec *)

\* create_days_analyzed_card: days_count = 0 if df_grouped.empty else len(df_grouped)
DaysAnalyzedCard(df_grouped) ==
    IF df_grouped.rows = <<>> THEN 0 ELSE Len(df_grouped.rows)

\* a run of main() has drawn the dashboard with its summary cards
DashboardRendered == pc = "idle" /\ ui.rendered = DashboardSections

\* C21 (as claimed): whenever main() renders the dashboard, the 'Days Being
\* Analyzed' card shows the number of days that match the filters currently applied
\* in the sidebar (the date range, symbol/category filter and zone settings the other
\* cards of the same run display), after any sequence of filter changes and reruns.
C21_DaysCardShowsCurrentFilters ==
    DashboardRendered =>
        DaysAnalyzedCard(session["df_grouped"])
            = Len(group_symbols_by_time_zone(table, GroupArgs))

-----------------------------------------------------------------------------
(* One refresh as a function of the table and the sidebar: lines 139-191 of   *)
(* main() with every query answered and no cached result                      *)

\* what the refresh leaves in st.session_state; order1 and order2 are the sort
\* orders of the two queries of get_bullish_bearish_stats
RefreshResults(T, a, order1, order2) ==
    LET rows == group_symbols_by_time_zone(T, a)
        selected_days == [i \in 1..Len(rows) |-> rows[i].day]
    IN  IF rows = <<>>
        THEN [df_grouped |-> rows, retracement_df |-> NULL, zone1_retracement_df |-> NULL,
              high_prob |-> NULL, high_dist_df |-> NULL, low_prob |-> NULL,
              low_dist_df |-> NULL, bullish_bearish |-> NULL]
        ELSE [df_grouped |-> rows,
              retracement_df |-> Some(get_retracement_stats(T, selected_days)),
              zone1_retracement_df |-> Some(get_zone1_retracement_stats(T, selected_days)),
              high_prob |-> Some(get_high_in_open_probability(T, selected_days)),
              high_dist_df |-> Some(get_high_distribution(T, selected_days)),
              low_prob |-> Some(get_low_in_open_probability(T, selected_days)),
              low_dist_df |-> Some(get_low_distribution(T, selected_days)),
              bullish_bearish |->
                  Some(get_bullish_bearish_stats(T, selected_days, order1, order2))]

\* selected_days of the refresh
RefreshDays(T, a) ==
    LET rows == group_symbols_by_time_zone(T, a) IN [i \in 1..Len(rows) |-> rows[i].day]

\* bars of day 1: symbol ESH at 100.00 in Zone 2, at 100.00 or above in the evening,
\* at 100.00 or below in the morning; symbol 6EH at midnight and at 09:30
RefreshBars ==
    {FlatBar(1, T0300, 10000, SymES, CatES)}
      \cup UNION {{FlatBar(1, t, 10000, SymES, CatES), HighBar(1, t, SymES, CatES)} :
                    t \in {T1800, T1900}}
      \cup {FlatBar(1, t, p, SymES, CatES) : t \in {T0930, T1040}, p \in {9990, 10000}}
      \cup {UpBar(1, t, Sym6E, Cat6E) : t \in {T0000, T0930}}

\* tables with room for a bar in each zone and one more
RefreshTables ==
    {T \in SubsetsUpTo(RefreshBars, MaxBars + 1) :
        \A x \in T : \A y \in T :
            (x.day = y.day /\ x.tm = y.tm /\ x.symbol = y.symbol) => x = y}

RefreshArgs ==
    {[start_date |-> 1, end_date |-> 2, grouping |-> "day",
      zone1_start |-> z1, zone2_start |-> DefaultZone2Start, zone3_start |-> z3,
      zone1_type |-> "Above Zone 2", zone2_type |-> "Below Zone 1",
      zone3_type |-> "Below Zone 1 & Zone 2",
      symbol_filter_value |-> sf, category_filter_value |-> NoFilter] :
        z1 \in {T1800, T1900}, z3 \in {T0930, T1040}, sf \in {NoFilter, SymEs}}

RefreshInit ==
    /\ table \in RefreshTables
    /\ args \in RefreshArgs
    /\ df = NULL
    /\ fpc = "ready"
    /\ MainOff
    /\ pc = "off"

CallRefresh ==
    /\ fpc = "ready"
    /\ \E order1 \in CandleOrders(table, RefreshDays(table, args)) :
          \E order2 \in CandleOrders(table, RefreshDays(table, args)) :
              df' = Some(RefreshResults(table, args, order1, order2))
    /\ fpc' = "refresh"
    /\ UNCHANGED <<table, args, mvars>>

RefreshNext == CallRefresh

SpecRefresh == RefreshInit /\ [][RefreshNext]_vars

-----------------------------------------------------------------------------
(* Claims about the refresh, checked under SpecRefresh *)

\* the table without the bars the symbol/category filters exclude
FilteredTable ==
    {b \in table : /\ SymbolMatches(b, args.symbol_filter_value)
                   /\ CategoryMatches(b, args.category_filter_value)}

\* every selected day has a high in each zone and meets all three selected conditions
SelectedOnAllThree ==
    \A i \in 1..Len(df[1].df_grouped) :
        LET r == df[1].df_grouped[i]
        IN  /\ r.zone1_max # NULL /\ r.zone2_max # NULL /\ r.zone3_max # NULL
            /\ Zone1Cond(args, r) /\ Zone2Cond(args, r) /\ Zone3Cond(args, r)

\* C22 (as claimed): bars whose symbol or category is excluded by the user's filters
\* do not influence any displayed statistic: the refresh yields what it yields on
\* the table without those bars, with the same selected days and the same
\* retracement, Zone 1 retracement, high/low-of-day and bullish/bearish results
\* (stated for the refreshes whose selected days meet all three conditions).
C22_ExcludedBarsHaveNoInfluence ==
    (fpc = "refresh" /\ SelectedOnAllThree) =>
        \E order1 \in CandleOrders(FilteredTable, RefreshDays(FilteredTable, args)) :
            \E order2 \in CandleOrders(FilteredTable, RefreshDays(FilteredTable, args)) :
                df[1] = RefreshResults(FilteredTable, args, order1, order2)

\* C23 (as claimed): the Zone 1 window that supplies the reference price and the
\* Zone 3 window after which retracement is measured in get_zone1_retracement_stats
\* are the Zone 1 and Zone 3 windows selected in the sidebar: on every selected day
\* the bars that supply the reference price lie in the window that starts at
\* zone1_start and the bars that mark the end of Zone 3 in the window that starts
\* at zone3_start (stated for the refreshes whose selected days meet all three
\* conditions).
C23_RetracementFollowsConfiguredZones ==
    (fpc = "refresh" /\ SelectedOnAllThree) =>
        \A d \in DaySet(RefreshDays(table, args)) :
            /\ \A b \in Zone1PriceBars(table, d) : InZone(b, args.zone1_start)
            /\ \A b \in Zone3Bars(table, d) : InZone(b, args.zone3_start)

-----------------------------------------------------------------------------
(* A failed grouping query, checked under Spec *)

\* the run of main() has ended in the except branch of the grouping query
GroupRaised ==
    /\ pc = "idle"
    /\ \E i \in 1..Len(ui.failed) : ui.failed[i] = "group_symbols_by_time_zone"

\* C24: if group_symbols_by_time_zone raises during a refresh, the result under every
\* session key (df_grouped and the eight statistics) stays what it was when the run
\* began, the progress bar is reset to 0 with status 'Error occurred.', and the run
\* ends without calling an analysis function or rendering a dashboard section.
C24_GroupFailureLeavesSession ==
    GroupRaised =>
        /\ \A k \in SessionKeys : ResultOf(session, k) = ResultOf(loc.session0, k)
        /\ ui.progress = Some(0)
        /\ ui.status = Some("Error occurred.")
        /\ ui.errors # <<>>
        /\ ui.errors[Len(ui.errors)] = "Error in group_symbols_by_time_zone"
        /\ \A i \in 1..Len(ui.queries) :
              ui.queries[i] \in {"get_date_range", "group_symbols_by_time_zone"}
        /\ ui.rendered = {}

\* C24 witness: a click of 'Refresh Data' on a loaded dashboard ran into a failing
\* grouping query; the earlier grouping and statistics are still in the session.
C24_Witness ==
    /\ GroupRaised
    /\ loc.click
    /\ session["df_grouped"].kind = "DataFrame"
    /\ session["retracement_df"].kind = "result"
    /\ session["bullish_bearish_daily"].kind = "result"
    /\ session = loc.session0

=============================================================================
